---- MODULE Spec2Model ----
(***************************************************************************)
(* Model of trophi_app.py: the JSON ingestion helper parse_json_safely,    *)
(* the scalar coercion helpers, and the five-phase analysis pipeline that  *)
(* runs when "Execute Analysis" is pressed.                                *)
(*                                                                         *)
(* Text is modelled as a sequence of units.  A unit is either one          *)
(* character that matters to the code (brace, quote, colon, comma, ...),   *)
(* a run of decimal digits, or a run of other characters that contains no  *)
(* brace, quote, bracket or whitespace ("word").                           *)
(***************************************************************************)
EXTENDS Integers, Sequences, FiniteSets, TLC

----------------------------------------------------------------------------
(* Text units *)

Ch(c) == [c |-> c, n |-> 0, w |-> 0]
W(s) == [c |-> s, n |-> 0, w |-> 0]
\* a run of w decimal digits whose value is n ("000" is D(0, 3))
D(n, w) == [c |-> "#", n |-> n, w |-> w]

LB == Ch("{")
RB == Ch("}")
QT == Ch("\"")
COLON == Ch(":")
COMMA == Ch(",")
SP == Ch(" ")
NL == Ch("\n")
MINUS == Ch("-")
DOT == Ch(".")

RECURSIVE Pow10(_)
Pow10(w) == IF w = 0 THEN 1 ELSE 10 * Pow10(w - 1)

RECURSIVE Flatten(_)
Flatten(ss) == IF ss = <<>> THEN <<>> ELSE Head(ss) \o Flatten(Tail(ss))

----------------------------------------------------------------------------
(* JSON values as Python holds them after json.loads *)

JInt(n) == [t |-> "int", v |-> n]
\* a float with one fractional digit, held in tenths: JFloat(15) is 1.5
JFloat(tenths) == [t |-> "float", v |-> tenths]
JStr(units) == [t |-> "str", v |-> units]
JBool(b) == [t |-> "bool", v |-> b]
JNull == [t |-> "null", v |-> 0]
JList(items) == [t |-> "list", v |-> items]
JObj(f) == [t |-> "dict", v |-> f]

EmptyDict == [k \in {} |-> JNull]
\* dict key for a one-word key name
K(s) == <<W(s)>>
\* a string value of one word
S1(s) == JStr(<<W(s)>>)

\* result[key] = value
DictSet(f, key, val) ==
    [k \in (DOMAIN f) \cup {key} |-> IF k = key THEN val ELSE f[k]]

\* dict built from a sequence of <<key, value>> pairs, later pairs winning
RECURSIVE DictOf(_)
DictOf(pairs) ==
    IF pairs = <<>> THEN EmptyDict
    ELSE LET n == Len(pairs)
         IN DictSet(DictOf(SubSeq(pairs, 1, n - 1)), pairs[n][1], pairs[n][2])

\* dict.get(key, default)
Get(f, key, default) == IF key \in DOMAIN f THEN f[key] ELSE default

----------------------------------------------------------------------------
(* parse_json_safely: cleaning *)

IsSpace(u) == u.c = " "
IsControl(u) == u.c \in {"\n", "\t"}

\* control characters become spaces
ReplaceControl(text) == [i \in DOMAIN text |-> IF IsControl(text[i]) THEN SP ELSE text[i]]

\* the units of text at the positions where keep holds, in order
KeepWhere(text, keep(_)) ==
    LET marked == [i \in DOMAIN text |-> [u |-> text[i], keep |-> keep(i)]]
        kept == SelectSeq(marked, LAMBDA m : m.keep)
    IN [i \in DOMAIN kept |-> kept[i].u]

\* runs of whitespace become one space
CollapseSpace(text) ==
    KeepWhere(text, LAMBDA i : ~(i > 1 /\ IsSpace(text[i]) /\ IsSpace(text[i - 1])))

\* removal of the code fences (three backquotes, optionally followed by "json"
\* in any letter case); a fence is one unit, FENCE or FENCE_JSON
FENCE == W("<fence>")
FENCE_JSON == W("<fence>json")
StripFences(text) == SelectSeq(text, LAMBDA u : u \notin {FENCE, FENCE_JSON})

\* the least member of a set of positions, 0 when the set is empty
First(hits) == IF hits = {} THEN 0 ELSE CHOOSE i \in hits : \A j \in hits : i <= j

\* the end of the markdown link starting at the '[' of position i, 0 when
\* there is none: '[' anything ']' '(' anything ')', both "anything" as short
\* as possible
LinkEnd(text, i) ==
    LET j == First({x \in (i + 1)..(Len(text) - 1) : text[x].c = "]" /\ text[x + 1].c = "("})
    IN IF j = 0 THEN 0 ELSE First({x \in (j + 2)..Len(text) : text[x].c = ")"})

\* removal of markdown links, leftmost first
RECURSIVE StripLinks(_)
StripLinks(text) ==
    LET i == First({x \in DOMAIN text : text[x].c = "[" /\ LinkEnd(text, x) # 0})
    IN IF i = 0 THEN text
       ELSE SubSeq(text, 1, i - 1) \o StripLinks(SubSeq(text, LinkEnd(text, i) + 1, Len(text)))

\* removal of markdown bold, '**' anything '**' as short as possible: the
\* markers pair up in order, and a pair goes with everything between
StripBold(text) ==
    LET markers == {x \in DOMAIN text : text[x].c = "**"}
        before(i) == Cardinality({x \in markers : x < i})
    IN KeepWhere(text, LAMBDA i :
            IF i \in markers
            THEN before(i) % 2 = 0 /\ before(i) + 1 = Cardinality(markers)
            ELSE before(i) % 2 = 0 \/ before(i) = Cardinality(markers))

CleanText(text) == StripBold(StripLinks(StripFences(CollapseSpace(ReplaceControl(text)))))

----------------------------------------------------------------------------
(* parse_json_safely: boundaries and brace repair *)

\* text.find(ch): first index of the unit, 0 when absent (Python's -1)
Find(text, ch) == First({i \in DOMAIN text : text[i].c = ch})

\* text.rfind(ch): last index of the unit, 0 when absent (Python's -1)
RFind(text, ch) ==
    LET hits == {i \in DOMAIN text : text[i].c = ch}
    IN IF hits = {} THEN 0 ELSE CHOOSE i \in hits : \A j \in hits : j <= i

\* str.strip()
RECURSIVE Strip(_)
Strip(text) ==
    IF text = <<>> THEN <<>>
    ELSE IF IsSpace(text[1]) THEN Strip(Tail(text))
    ELSE IF IsSpace(text[Len(text)]) THEN Strip(SubSeq(text, 1, Len(text) - 1))
    ELSE text

\* text[start:end+1].strip() for found boundaries (empty when end < start)
JsonSlice(text) == Strip(SubSeq(text, Find(text, "{"), RFind(text, "}")))

\* str.count(ch)
Count(text, ch) == Cardinality({i \in DOMAIN text : text[i].c = ch})

\* '}' * n
Braces(n) == [i \in 1..n |-> RB]

\* the repair appending one closing brace too few
RepairBraces_OffByOne(json_str) ==
    LET open_braces == Count(json_str, "{")
        close_braces == Count(json_str, "}")
    IN IF open_braces > close_braces
       THEN json_str \o Braces(open_braces - close_braces - 1)
       ELSE json_str

\* if open_braces > close_braces: json_str += '}' * (open_braces - close_braces)
RepairBraces(json_str) ==
    LET open_braces == Count(json_str, "{")
        close_braces == Count(json_str, "}")
    IN IF open_braces > close_braces
       THEN json_str \o Braces(open_braces - close_braces)
       ELSE json_str

----------------------------------------------------------------------------
(* json.loads on a unit sequence.  A parse step returns the value and the  *)
(* position after it, or Fail.                                             *)

Fail == [ok |-> FALSE, v |-> JNull, pos |-> 0]
Ok(v, pos) == [ok |-> TRUE, v |-> v, pos |-> pos]

\* the character class at position i, "" past the end
At(s, i) == IF i \in DOMAIN s THEN s[i].c ELSE ""

\* the JSON decoder's whitespace skip
RECURSIVE SkipWs(_, _)
SkipWs(s, i) == IF At(s, i) = " " THEN SkipWs(s, i + 1) ELSE i

\* a string literal starting at the quote s[i]: everything up to the next quote
ParseString(s, i) ==
    LET j == First({x \in (i + 1)..Len(s) : s[x].c = "\""})
    IN IF j = 0 THEN Fail ELSE Ok(JStr(SubSeq(s, i + 1, j - 1)), j + 1)

\* a number: optional '-', an integer part without a leading zero, and an
\* optional '.' with fraction digits (one fraction digit in every modelled text)
ParseNumber(s, i) ==
    LET p == IF At(s, i) = "-" THEN i + 1 ELSE i
        sign == IF At(s, i) = "-" THEN -1 ELSE 1
    IN IF At(s, p) # "#" THEN Fail
       ELSE IF s[p].w > 1 /\ s[p].n < Pow10(s[p].w - 1) THEN Fail
       ELSE IF At(s, p + 1) = "." /\ At(s, p + 2) = "#"
            THEN CASE s[p + 2].w = 1 -> Ok(JFloat(sign * (s[p].n * 10 + s[p + 2].n)), p + 3)
            ELSE Ok(JInt(sign * s[p].n), p + 1)

RECURSIVE ParseValue(_, _), ParseMembers(_, _, _), ParseItems(_, _, _)

\* the members of an object from the key quote s[j] on; acc holds the pairs read
ParseMembers(s, j, acc) ==
    LET key == ParseString(s, j)
        c1 == SkipWs(s, key.pos)
        val == ParseValue(s, SkipWs(s, c1 + 1))
        e == SkipWs(s, val.pos)
        acc2 == DictSet(acc, key.v.v, val.v)
        n == SkipWs(s, e + 1)
    IN IF ~key.ok THEN Fail
       ELSE IF At(s, c1) # ":" THEN Fail
       ELSE IF ~val.ok THEN Fail
       ELSE IF At(s, e) = "}" THEN Ok(JObj(acc2), e + 1)
       ELSE IF At(s, e) # "," THEN Fail
       ELSE IF At(s, n) # "\"" THEN Fail
       ELSE ParseMembers(s, n, acc2)

\* the items of an array from position j on; acc holds the items read
ParseItems(s, j, acc) ==
    LET val == ParseValue(s, j)
        e == SkipWs(s, val.pos)
    IN IF ~val.ok THEN Fail
       ELSE IF At(s, e) = "]" THEN Ok(JList(Append(acc, val.v)), e + 1)
       ELSE IF At(s, e) # "," THEN Fail
       ELSE ParseItems(s, SkipWs(s, e + 1), Append(acc, val.v))

ParseValue(s, i) ==
    LET c == At(s, i)
        j == SkipWs(s, i + 1)
    IN IF c = "\"" THEN ParseString(s, i)
       ELSE IF c = "{"
            THEN IF At(s, j) = "}" THEN Ok(JObj(EmptyDict), j + 1)
                 ELSE IF At(s, j) # "\"" THEN Fail
                 ELSE ParseMembers(s, j, EmptyDict)
       ELSE IF c = "["
            THEN IF At(s, j) = "]" THEN Ok(JList(<<>>), j + 1)
                 ELSE ParseItems(s, j, <<>>)
       ELSE IF c \in {"#", "-"} THEN ParseNumber(s, i)
       ELSE IF c = "true" THEN Ok(JBool(TRUE), i + 1)
       ELSE IF c = "false" THEN Ok(JBool(FALSE), i + 1)
       ELSE IF c = "null" THEN Ok(JNull, i + 1)
       ELSE Fail

\* json.loads(json_str): one value, surrounded by whitespace only
Loads(json_str) ==
    LET r == ParseValue(json_str, SkipWs(json_str, 1))
    IN IF ~r.ok THEN Fail
       ELSE IF SkipWs(json_str, r.pos) # Len(json_str) + 1 THEN Fail
       ELSE r

----------------------------------------------------------------------------
(* parse_json_safely: placeholders, validation against the fallback *)

\* words separated by single spaces
RECURSIVE Words(_)
Words(ws) ==
    IF ws = <<>> THEN <<>>
    ELSE IF Len(ws) = 1 THEN <<W(ws[1])>>
    ELSE <<W(ws[1]), SP>> \o Words(Tail(ws))

\* placeholder_map, in insertion order: each placeholder is one word unit
placeholder_map ==
    << <<W("$XM"), <<W("$"), D(25, 2), W("M")>> >>,
       <<W("X,XXX"), <<D(15, 2), COMMA, D(0, 3)>> >>,
       <<W("X%"), <<D(7, 1), DOT, D(3, 1), W("%")>> >>,
       <<W("YOUR_RATIONALE"),
         Words(<<"Limited", "public", "data">>) \o <<SP, MINUS, SP>>
            \o Words(<<"requires", "manual", "research">>)>> >>

\* obj.replace(placeholder, replacement) on the content of a string
ReplaceIn(units, placeholder, replacement) ==
    Flatten([i \in DOMAIN units |->
                IF units[i] = placeholder THEN replacement ELSE <<units[i]>>])

\* the for-loop over placeholder_map, from entry i on
RECURSIVE ReplaceAll(_, _)
ReplaceAll(units, i) ==
    IF i > Len(placeholder_map) THEN units
    ELSE ReplaceAll(ReplaceIn(units, placeholder_map[i][1], placeholder_map[i][2]), i + 1)

RECURSIVE replace_placeholders(_)
replace_placeholders(obj) ==
    IF obj.t = "dict" THEN JObj([k \in DOMAIN obj.v |-> replace_placeholders(obj.v[k])])
    ELSE IF obj.t = "list" THEN JList([i \in DOMAIN obj.v |-> replace_placeholders(obj.v[i])])
    ELSE IF obj.t = "str" THEN JStr(ReplaceAll(obj.v, 1))
    ELSE obj

\* the validation loop left out: the parsed object is returned as it is
ValidateAgainstFallback_NoFill(result, fallback_data) == result

\* for key, default_value in fallback_data.items():
\*     if key not in result: result[key] = default_value
ValidateAgainstFallback(result, fallback_data) ==
    [k \in (DOMAIN result) \cup (DOMAIN fallback_data) |->
        IF k \in DOMAIN result THEN result[k] ELSE fallback_data[k]]

\* the try block up to json.loads: Fail stands for any exception raised in it
ExtractJson(text) ==
    LET cleaned == CleanText(text)
        start == Find(cleaned, "{")
        end == RFind(cleaned, "}")
    IN IF start = 0 \/ end = 0 THEN Fail
       ELSE Loads(RepairBraces(JsonSlice(cleaned)))

\* the except branch returning an empty mapping whatever the fallback is
ExceptBranch_Empty(fallback_data) == EmptyDict

\* the except branch: fallback_data, or {} when there is none
ExceptBranch(fallback_data) == fallback_data

\* the rest of the try block, given the parsed object
FinishParse(parsed, fallback_data) ==
    IF ~parsed.ok THEN ExceptBranch(fallback_data)
    ELSE IF fallback_data # EmptyDict
         THEN ValidateAgainstFallback(replace_placeholders(parsed.v).v, fallback_data)
         ELSE replace_placeholders(parsed.v).v

parse_json_safely(text, fallback_data) == FinishParse(ExtractJson(text), fallback_data)

----------------------------------------------------------------------------
(* Fallback objects *)

FALLBACK_MARKET == DictOf(<<
    <<K("tam"), JStr(<<W("$"), D(25, 2), W("M")>>)>>,
    <<K("sam"), JStr(<<W("$"), D(12, 2), W("M")>>)>>,
    <<K("som"), JStr(<<W("$"), D(1, 1), DOT, D(2, 1), W("M")>>)>>,
    <<K("active_users"),
      JStr(<<W("Undisclosed"), SP, W("(est."), SP, D(10, 2), W("K"), MINUS, D(50, 2), W("K"), SP>>
           \o Words(<<"from", "similar", "titles)">>))>>,
    <<K("source"),
      JStr(Words(<<"Industry", "estimation">>) \o <<SP, MINUS, SP>>
           \o Words(<<"REQUIRES", "MANUAL", "VERIFICATION">>))>>,
    <<K("cagr"),
      JStr(<<D(5, 1), MINUS, D(10, 2), W("%"), SP>> \o Words(<<"(conservative", "estimate)">>))>>,
    <<K("confidence"), JInt(35)>>,
    <<K("rationale"),
      JStr(Words(<<"Limited", "public", "data">>) \o <<SP, MINUS, SP>>
           \o Words(<<"conservative", "estimate", "based", "on", "similar",
                      "racing", "sim", "titles">>))>> >>)

FALLBACK_TECH == DictOf(<<
    <<K("method"), JStr(Words(<<"UDP", "(assume", "telemetry", "parsing", "required)">>))>>,
    <<K("endpoint"),
      JStr(Words(<<"Standard", "port">>) \o <<SP, MINUS, SP>> \o Words(<<"research", "needed">>))>>,
    <<K("hours"), JInt(120)>>,
    <<K("cost_at_120_hr"), JStr(<<W("$"), D(14, 2), COMMA, D(400, 3)>>)>>,
    <<K("timeline_days"), JInt(14)>>,
    <<K("qa_days"), JInt(5)>>,
    <<K("team_pct_of_sprint"), JFloat(375)>>,
    <<K("parallelizable"), JBool(FALSE)>>,
    <<K("risk_level"), S1("Medium")>>,
    <<K("source"), JStr(Words(<<"Trophi", "engineering", "benchmarks">>))>> >>)

\* one case of the financial model
FinCase(conversion, arr, payback, npv, ltv) == JObj(DictOf(<<
    <<K("conversion"), conversion>>, <<K("arr"), arr>>, <<K("payback"), payback>>,
    <<K("npv"), npv>>, <<K("ltv"), ltv>> >>))

Money(n, w, suffix) == JStr(<<W("$"), D(n, w), W(suffix)>>)
MoneyFrac(n, f, suffix) == JStr(<<W("$"), D(n, 1), DOT, D(f, 1), W(suffix)>>)
Dollars(n, w) == JStr(<<W("$"), D(n, w)>>)
Days(n, w) == JStr(<<D(n, w), SP, W("days")>>)

FALLBACK_FINANCIAL == DictOf(<<
    <<K("base"), FinCase(JFloat(10), Money(180, 3, "K"), Days(120, 3), MoneyFrac(0, 4, "M"), Dollars(180, 3))>>,
    <<K("bull"), FinCase(JFloat(20), Money(360, 3, "K"), Days(75, 2), MoneyFrac(0, 9, "M"), Dollars(360, 3))>>,
    <<K("bear"), FinCase(JFloat(5), Money(90, 2, "K"), Days(180, 3), MoneyFrac(0, 1, "M"), Dollars(90, 2))>> >>)

FALLBACK_STRATEGY == DictOf(<<
    <<K("fit_score"), JInt(5)>>,
    <<K("alignment"), JStr(Words(<<"Unknown", "(requires", "product", "review)">>))>>,
    <<K("moat_benefit"), JStr(Words(<<"Limited", "information", "available">>))>>,
    <<K("competitors"), JList(<<JStr(Words(<<"Manual", "research", "required">>))>>)>>,
    <<K("velocity"), JInt(5)>>,
    <<K("speedrun_leverage"), JStr(Words(<<"Investigate", "A16Z", "network", "connections">>))>>,
    <<K("risk_level"), S1("Unknown")>> >>)

----------------------------------------------------------------------------
(* Scalar coercion helpers and Python conversions *)

\* re.sub(r'[^\d]', '', value): the digits of a string, as value n and count w
RECURSIVE DigitsOf(_)
DigitsOf(units) ==
    IF units = <<>> THEN [n |-> 0, w |-> 0]
    ELSE LET front == DigitsOf(SubSeq(units, 1, Len(units) - 1))
             u == units[Len(units)]
         IN IF u.c = "#" THEN [n |-> front.n * Pow10(u.w) + u.n, w |-> front.w + u.w]
            ELSE front

\* int(x) of a float held in tenths: truncation toward zero
TruncTenths(v) == IF v >= 0 THEN v \div 10 ELSE -((-v) \div 10)

\* what a try block did: it returned v, or raised
Returned(v) == [raised |-> FALSE, v |-> v]
Raised == [raised |-> TRUE, v |-> 0]

\* a handler that lets the exception through
ExceptDefault_Reraise(outcome, default) == outcome

\* except: return default
ExceptDefault(outcome, default) == IF outcome.raised THEN Returned(default) ELSE outcome

\* lines 107-110, the try block of safe_int: None, dicts and lists make int() raise
SafeIntBody(value, default) ==
    IF value.t = "str"
    THEN Returned(IF DigitsOf(value.v).w = 0 THEN default ELSE DigitsOf(value.v).n)
    ELSE IF value.t = "int" THEN Returned(value.v)
    ELSE IF value.t = "float" THEN Returned(TruncTenths(value.v))
    ELSE IF value.t = "bool" THEN Returned(IF value.v THEN 1 ELSE 0)
    ELSE Raised

\* a call of safe_int(value, default)
SafeIntCall(value, default) == ExceptDefault(SafeIntBody(value, default), default)

\* the value safe_int(value, default) returns
safe_int(value, default) == SafeIntCall(value, default).v

\* float(s) of a string, in tenths: optional '-', then digits, digits '.',
\* digits '.' digit or '.' digit, surrounded by whitespace only; anything else
\* raises ValueError (the modelled texts hold no exponent, no 'nan' or 'inf'
\* and one fraction digit)
FloatOfStr(units) ==
    LET s == Strip(units)
        p == IF At(s, 1) = "-" THEN 2 ELSE 1
        sign == IF At(s, 1) = "-" THEN -1 ELSE 1
        no == [ok |-> FALSE, v |-> 0]
    IN IF At(s, p) = "#"
       THEN IF Len(s) = p THEN [ok |-> TRUE, v |-> sign * s[p].n * 10]
            ELSE IF At(s, p + 1) # "." THEN no
            ELSE IF Len(s) = p + 1 THEN [ok |-> TRUE, v |-> sign * s[p].n * 10]
            ELSE IF Len(s) = p + 2 /\ At(s, p + 2) = "#"
                 THEN CASE s[p + 2].w = 1 -> [ok |-> TRUE, v |-> sign * (s[p].n * 10 + s[p + 2].n)]
            ELSE no
       ELSE IF At(s, p) = "." /\ Len(s) = p + 1 /\ At(s, p + 1) = "#"
            THEN CASE s[p + 1].w = 1 -> [ok |-> TRUE, v |-> sign * s[p + 1].n]
       ELSE no

\* line 116, the try block of safe_float: float(value), in tenths
SafeFloatBody(value) ==
    IF value.t = "str"
    THEN (IF FloatOfStr(value.v).ok THEN Returned(FloatOfStr(value.v).v) ELSE Raised)
    ELSE IF value.t = "int" THEN Returned(value.v * 10)
    ELSE IF value.t = "float" THEN Returned(value.v)
    ELSE IF value.t = "bool" THEN Returned(IF value.v THEN 10 ELSE 0)
    ELSE Raised

\* a call of safe_float(value, default), values and default in tenths
SafeFloatCall(value, default) == ExceptDefault(SafeFloatBody(value), default)

\* the value safe_float(value, default) returns
safe_float(value, default) == SafeFloatCall(value, default).v

RECURSIVE NumDigits(_)
NumDigits(n) == IF n < 10 THEN 1 ELSE 1 + NumDigits(n \div 10)

Abs(n) == IF n < 0 THEN -n ELSE n

\* str(value) for the scalar values a response can hold
PyStr(value) ==
    CASE value.t = "str" -> value.v
      [] value.t = "int" ->
            (IF value.v < 0 THEN <<MINUS>> ELSE <<>>) \o <<D(Abs(value.v), NumDigits(Abs(value.v)))>>
      [] value.t = "float" ->
            (IF value.v < 0 THEN <<MINUS>> ELSE <<>>)
                \o <<D(Abs(value.v) \div 10, NumDigits(Abs(value.v) \div 10)), DOT, D(Abs(value.v) % 10, 1)>>
      [] value.t = "bool" -> <<W(IF value.v THEN "True" ELSE "False")>>
      [] value.t = "null" -> <<W("None")>>

\* adjacent runs of digits are one run
RECURSIVE MergeDigits(_)
MergeDigits(units) ==
    IF Len(units) < 2 THEN units
    ELSE LET rest == MergeDigits(Tail(units))
         IN IF units[1].c = "#" /\ rest[1].c = "#"
            THEN <<D(units[1].n * Pow10(rest[1].w) + rest[1].n, units[1].w + rest[1].w)>> \o Tail(rest)
            ELSE <<units[1]>> \o rest

\* str.replace(ch, ''), ch a one-character unit
Without(units, ch) == MergeDigits(SelectSeq(units, LAMBDA u : u.c # ch))

\* line 122: str(cost_str) without '$', ',' and ' '; str() of a list or a
\* dict starts with a bracket, which float() rejects as it rejects any word
CostClean(cost_str) ==
    IF cost_str.t \in {"list", "dict"} THEN <<W("[")>>
    ELSE Without(Without(Without(PyStr(cost_str), "$"), ","), " ")

\* lines 122-127, the try block of parse_cost_to_number; int(float(x) * 1000)
\* is taken exactly, as it is for the amounts of the modelled texts
ParseCostBody(cost_str) ==
    LET clean == CostClean(cost_str)
        HasUnit(ch) == \E i \in DOMAIN clean : clean[i].c = ch
        Scaled(ch, factor) ==
            LET f == FloatOfStr(Without(clean, ch))
            IN IF f.ok THEN Returned((f.v * factor) \div 10) ELSE Raised
    IN IF HasUnit("K") THEN Scaled("K", 1000)
       ELSE IF HasUnit("M") THEN Scaled("M", 1000000)
       ELSE IF FloatOfStr(clean).ok THEN Returned(TruncTenths(FloatOfStr(clean).v))
       ELSE Raised

\* a call of parse_cost_to_number(cost_str): except: return 0
ParseCostCall(cost_str) == ExceptDefault(ParseCostBody(cost_str), 0)

\* the value parse_cost_to_number(cost_str) returns
parse_cost_to_number(cost_str) == ParseCostCall(cost_str).v

\* str.split()[0]: the first whitespace-delimited word; <<>> when there is none
FirstWord(units) ==
    LET s == Strip(units)
        sp == First({i \in DOMAIN s : IsSpace(s[i])})
    IN IF sp = 0 THEN s ELSE SubSeq(s, 1, sp - 1)

\* round half to even of num/den (den > 0), the rule of Python's round()
RoundHalfEven(num, den) ==
    LET q == num \div den
        r == num - q * den
    IN IF 2 * r < den THEN q
       ELSE IF 2 * r > den THEN q + 1
       ELSE IF q % 2 = 0 THEN q ELSE q + 1

----------------------------------------------------------------------------
(* State *)

VARIABLES
    \* one call of parse_json_safely
    text,            \* the text argument
    fallback_data,   \* the fallback_data argument
    parsed,          \* the outcome of the try block up to json.loads
    result,          \* the returned mapping
    ppc,             \* position in the call: "call", "parsed", "returned"
    \* one run of the analysis pipeline
    pc,              \* position in the script run
    target_name,     \* the text input
    client,          \* whether the name client is bound in this run
    analysis_done,   \* st.session_state.analysis_done
    ai_data,         \* st.session_state.ai_data
    memo_text,       \* st.session_state.memo_text
    used_fallback,   \* st.session_state.used_fallback
    phase_errors,    \* st.session_state.phase_errors
    market_data, tech_data, fin_data, strategy_data,
    responses,       \* what the generator did in each phase of this run
    fin_prompt_users, \* the USERS value formatted into the Financial prompt
    \* one call of a coercion helper
    coerce_value,    \* the value (cost_str) argument
    coerce_default,  \* the default argument (safe_float's in tenths)
    coerced,         \* the helper called and what the call did
    cpc              \* position in the call: "call", "returned"

parseVars == <<text, fallback_data, parsed, result, ppc>>
runVars == <<pc, target_name, client, analysis_done, ai_data, memo_text, used_fallback,
             phase_errors, market_data, tech_data, fin_data, strategy_data, responses,
             fin_prompt_users>>
coerceVars == <<coerce_value, coerce_default, coerced, cpc>>
vars == <<parseVars, runVars, coerceVars>>

\* a local name that has not been assigned, and Python's None
Unbound == [t |-> "unbound", v |-> 0]
None == JNull

\* the session state after the initialisation loop of a first script run; the
\* initial False of phase_errors is held as the empty list (nothing reads it
\* before the pipeline assigns [])
RunIdle ==
    /\ pc = "idle"
    /\ target_name = ""
    /\ client = FALSE
    /\ analysis_done = FALSE
    /\ ai_data = None
    /\ memo_text = None
    /\ used_fallback = FALSE
    /\ phase_errors = <<>>
    /\ market_data = Unbound
    /\ tech_data = Unbound
    /\ fin_data = Unbound
    /\ strategy_data = Unbound
    /\ responses = <<>>
    /\ fin_prompt_users = Unbound

ParseIdle ==
    /\ text = <<>>
    /\ fallback_data = EmptyDict
    /\ parsed = Fail
    /\ result = EmptyDict
    /\ ppc = "idle"

CoerceIdle ==
    /\ coerce_value = None
    /\ coerce_default = 0
    /\ coerced = [fn |-> "", r |-> Returned(0)]
    /\ cpc = "idle"

----------------------------------------------------------------------------
(* Calls of parse_json_safely on bounded texts *)

MaxTokens == 5

\* a quoted one-word string literal
Q(s) == <<QT, W(s), QT>>

\* the pieces texts are assembled from: braces, a key with its colon, a number,
\* a comma, and a string literal whose content is a closing brace
ParseTokens ==
    << <<LB>>, <<RB>>, Q("hours") \o <<COLON>>, <<D(1, 1)>>, <<COMMA>>, <<QT, RB, QT>> >>

TokenTexts ==
    {Flatten([i \in DOMAIN ts |-> ParseTokens[ts[i]]]) :
        ts \in UNION {[1..m -> DOMAIN ParseTokens] : m \in 0..MaxTokens}}

\* a run of digits or of word characters is one unit: no two such units touch
Maximal(t) ==
    \A i \in 1..(Len(t) - 1) :
        ~(t[i].c = "#" /\ t[i + 1].c = "#")

ExampleTexts == {
    \* {"a": 1, "b": {"c": 2}
    <<LB>> \o Q("a") \o <<COLON, SP, D(1, 1), COMMA, SP>> \o Q("b") \o <<COLON, SP, LB>>
        \o Q("c") \o <<COLON, SP, D(2, 1), RB>>,
    \* {"hours": {"hours": {}   (two closing braces missing)
    <<LB>> \o Q("hours") \o <<COLON, LB>> \o Q("hours") \o <<COLON, LB, RB>>,
    \* {"x": 1, "y": 2}}
    <<LB>> \o Q("x") \o <<COLON, SP, D(1, 1), COMMA, SP>> \o Q("y") \o <<COLON, SP, D(2, 1), RB, RB>>,
    \* I cannot provide this information.
    Words(<<"I", "cannot", "provide", "this", "information.">>),
    \* Sure! Here is the JSON: <newline> <fence>json <newline>
    \* {"tam": "$25M", "active_users": "15,000", "confidence": 85} <newline> <fence>
    Words(<<"Sure!", "Here", "is", "the", "JSON:">>) \o <<NL, FENCE_JSON, NL, LB>>
        \o Q("tam") \o <<COLON, SP, QT, W("$"), D(25, 2), W("M"), QT, COMMA, SP>>
        \o Q("active_users") \o <<COLON, SP, QT, D(15, 2), COMMA, D(0, 3), QT, COMMA, SP>>
        \o Q("confidence") \o <<COLON, SP, D(85, 2), RB, NL, FENCE>>,
    \* {"rationale": "smile :-}", "base": {"arr": "$1M"}
    <<LB>> \o Q("rationale") \o <<COLON, SP, QT, W("smile"), SP, COLON, MINUS, RB, QT, COMMA, SP>>
        \o Q("base") \o <<COLON, SP, LB>> \o Q("arr") \o <<COLON, SP, QT, W("$"), D(1, 1), W("M"), QT, RB>>,
    \* **Note** see [docs](http://x) {"fit_score": 9, "sam": "$XM"}
    <<Ch("**"), W("Note"), Ch("**"), SP, W("see"), SP, Ch("["), W("docs"), Ch("]"), Ch("("),
      W("http://x"), Ch(")"), SP, LB>> \o Q("fit_score") \o <<COLON, SP, D(9, 1), COMMA, SP>>
        \o Q("sam") \o <<COLON, SP>> \o Q("$XM") \o <<RB>> }

Texts == {t \in TokenTexts : Maximal(t)} \cup ExampleTexts

Fallbacks == {FALLBACK_MARKET, FALLBACK_TECH, FALLBACK_FINANCIAL, FALLBACK_STRATEGY}

ParseInit ==
    /\ text \in Texts
    /\ fallback_data \in Fallbacks
    /\ parsed = Fail
    /\ result = EmptyDict
    /\ ppc = "call"
    /\ RunIdle
    /\ CoerceIdle

\* lines 31-57: cleaning, boundaries, brace repair, json.loads
TryExtract ==
    /\ ppc = "call"
    /\ parsed' = ExtractJson(text)
    /\ ppc' = "parsed"
    /\ UNCHANGED <<text, fallback_data, result, runVars, coerceVars>>

\* lines 59-102: placeholders and validation, or the except branch
ReturnResult ==
    /\ ppc = "parsed"
    /\ result' = FinishParse(parsed, fallback_data)
    /\ ppc' = "returned"
    /\ UNCHANGED <<text, fallback_data, parsed, runVars, coerceVars>>

ParseNext == TryExtract \/ ReturnResult

ParseSpec == ParseInit /\ [][ParseNext]_vars

----------------------------------------------------------------------------
(* Calls of safe_int, safe_float and parse_cost_to_number on bounded values *)

MaxCoerceTokens == 3

\* the pieces argument strings are assembled from
CoerceTokens == <<MINUS, W("$"), D(5, 1), COMMA, W("K"), W("M"), DOT, SP, W("days")>>

CoerceTokenStrings ==
    {[i \in DOMAIN ts |-> CoerceTokens[ts[i]]] :
        ts \in UNION {[1..m -> DOMAIN CoerceTokens] : m \in 0..MaxCoerceTokens}}

\* a fraction of the string, also once '$', ',', ' ' and the units are
\* removed, has one digit
OneFractionDigit(t) ==
    LET bare == Without(Without(Without(Without(Without(t, "$"), ","), " "), "K"), "M")
    IN \A i \in 1..(Len(bare) - 1) : (bare[i].c = "." /\ bare[i + 1].c = "#") => bare[i + 1].w = 1

CoerceStrings ==
    {t \in CoerceTokenStrings : Maximal(t) /\ OneFractionDigit(t)}
    \cup { <<W("unknown")>>,
           <<W("$"), D(4, 1), COMMA, D(800, 3)>>,                 \* $4,800
           <<W("$"), D(14, 2), DOT, D(4, 1), W("K")>>,            \* $14.4K
           <<W("$"), D(1, 1), DOT, D(2, 1), W("M")>>,             \* $1.2M
           <<D(94, 2), SP, W("days")>>,                           \* 94 days
           <<D(10, 2), W("K"), MINUS, D(50, 2), W("K")>> }        \* 10K-50K

\* strings, numbers, None, lists, dicts and bools
CoerceValues ==
    {JStr(t) : t \in CoerceStrings}
    \cup {JInt(0), JInt(120), JInt(-5), JFloat(15), JFloat(-15), JFloat(19), None,
          JBool(TRUE), JBool(FALSE), JList(<<>>), JList(<<JInt(1)>>), JObj(EmptyDict),
          JObj(DictOf(<< <<K("hours"), JInt(40)>> >>))}

CoerceDefaults == {0, 7}

CoerceInit ==
    /\ coerce_value \in CoerceValues
    /\ coerce_default \in CoerceDefaults
    /\ coerced = [fn |-> "", r |-> Returned(0)]
    /\ cpc = "call"
    /\ RunIdle
    /\ ParseIdle

\* lines 105-112
CallSafeInt ==
    /\ cpc = "call"
    /\ coerced' = [fn |-> "safe_int", r |-> SafeIntCall(coerce_value, coerce_default)]
    /\ cpc' = "returned"
    /\ UNCHANGED <<coerce_value, coerce_default, parseVars, runVars>>

\* lines 114-118
CallSafeFloat ==
    /\ cpc = "call"
    /\ coerced' = [fn |-> "safe_float", r |-> SafeFloatCall(coerce_value, coerce_default)]
    /\ cpc' = "returned"
    /\ UNCHANGED <<coerce_value, coerce_default, parseVars, runVars>>

\* lines 120-129
CallParseCost ==
    /\ cpc = "call"
    /\ coerced' = [fn |-> "parse_cost_to_number", r |-> ParseCostCall(coerce_value)]
    /\ cpc' = "returned"
    /\ UNCHANGED <<coerce_value, coerce_default, parseVars, runVars>>

CoerceNext == CallSafeInt \/ CallSafeFloat \/ CallParseCost

CoerceSpec == CoerceInit /\ [][CoerceNext]_vars

----------------------------------------------------------------------------
(* Phase 5: scoring.  Scores are exact rationals held as multiples of       *)
(* 1/ScoreScale; the code computes them in binary floating point.          *)

ScoreScale == 60000
DefaultUsers == 25000

\* lines 377-384: the user count parsed from market_data['active_users']
UsersOf(market) ==
    LET users_str == PyStr(Get(market, K("active_users"), JStr(<<D(0, 1)>>)))
        digits == DigitsOf(users_str)
    IN IF \E i \in DOMAIN users_str : users_str[i].c = "Undisclosed" THEN DefaultUsers
       ELSE IF digits.w = 0 THEN DefaultUsers
       ELSE IF digits.n = 0 THEN DefaultUsers
       ELSE digits.n

\* min(10, users / 10000) * 3.5
market_score(users) == IF users >= 100000 THEN 35 * ScoreScale ELSE users * 21

\* (10 - min(safe_int(hours) / 48, 10)) * 2.5
tech_score(hours) == IF hours >= 480 THEN 0 ELSE 25 * ScoreScale - hours * 3125

\* safe_float(conversion) * 10 / 1.5 * 2.5, conversion in tenths
revenue_score(conversion) == conversion * 100000

\* safe_int(fit_score) * 1.5
strategy_score(fit_score) == fit_score * 90000

\* fin_data.get('base', {})
BaseOf(fin) == Get(fin, K("base"), JObj(EmptyDict))

HoursOf(tech) == safe_int(Get(tech, K("hours"), JInt(999)), 0)
ConversionOf(fin) == safe_float(Get(BaseOf(fin).v, K("conversion"), JFloat(10)), 0)
FitOf(strategy) == safe_int(Get(strategy, K("fit_score"), JInt(5)), 0)

\* round(market_score + tech_score + revenue_score + strategy_score, 1), in tenths
overall_score(market, tech, fin, strategy) ==
    RoundHalfEven(10 * (market_score(UsersOf(market)) + tech_score(HoursOf(tech))
                        + revenue_score(ConversionOf(fin)) + strategy_score(FitOf(strategy))),
                  ScoreScale)

\* fin_data.get('base', {}).get('payback', '999 days')
PaybackOf(fin) == Get(BaseOf(fin).v, K("payback"), JStr(<<D(999, 3), SP, W("days")>>))

\* line 415: .split()[0] raises AttributeError on a value that is no string and
\* IndexError on a string without a word
PaybackRaises(fin) ==
    \/ PaybackOf(fin).t # "str"
    \/ FirstWord(PaybackOf(fin).v) = <<>>

\* the ai_data record of lines 395-435 (scores in tenths)
AiDataOf(target, market, tech, fin, strategy, fallback_flag, errors) ==
    [ target |-> target,
      overall_score |-> overall_score(market, tech, fin, strategy),
      confidence |-> safe_int(Get(market, K("confidence"), JInt(40)), 0),
      market_attractiveness |->
          [ active_users |-> Get(market, K("active_users"), S1("Unknown")),
            score |-> RoundHalfEven(10 * market_score(UsersOf(market)), 35 * (ScoreScale \div 10)) ],
      technical_feasibility |->
          [ hours |-> HoursOf(tech),
            score |-> RoundHalfEven(10 * tech_score(HoursOf(tech)), 25 * (ScoreScale \div 10)),
            risk_level |-> Get(tech, K("risk_level"), S1("Unknown")) ],
      revenue_potential |->
          [ conversion_rate |-> ConversionOf(fin),
            payback_days |-> safe_int(JStr(FirstWord(PaybackOf(fin).v)), 0),
            score |-> RoundHalfEven(10 * revenue_score(ConversionOf(fin)), 25 * (ScoreScale \div 10)) ],
      strategic_fit |->
          [ score |-> FitOf(strategy),
            competitors |-> Get(strategy, K("competitors"), JList(<<S1("Unknown")>>)),
            speedrun_leverage |-> Get(strategy, K("speedrun_leverage"), S1("Unknown")) ],
      financial_model |-> fin,
      used_fallback |-> fallback_flag,
      phase_errors |-> errors ]

AiData(r) == [t |-> "ai_data", v |-> r]

----------------------------------------------------------------------------
(* The generator: what a chat_completion call can do in each phase *)

Raise == [raised |-> TRUE, text |-> <<>>]
Reply(t) == [raised |-> FALSE, text |-> t]
NoCall == [raised |-> FALSE, text |-> <<W("<not called>")>>]

\* "key": value
KV(k, value) == Q(k) \o <<COLON, SP>> \o value

\* members joined by ", "
RECURSIVE Join(_)
Join(members) ==
    IF members = <<>> THEN <<>>
    ELSE IF Len(members) = 1 THEN members[1]
    ELSE members[1] \o <<COMMA, SP>> \o Join(Tail(members))

\* { member, member, ... }
ObjText(members) == <<LB>> \o Join(members) \o <<RB>>

\* "$420K", "94 days", 1.5 as they are written in a response
MoneyText(n, w, suffix) == <<QT, W("$"), D(n, w), W(suffix), QT>>
DaysText(n, w) == <<QT, D(n, w), SP, W("days"), QT>>
FloatText(i, f) == <<D(i, NumDigits(i)), DOT, D(f, 1)>>
IntText(n) == <<D(n, NumDigits(n))>>

NoJsonText == Words(<<"I", "cannot", "provide", "this", "information.">>)

MarketOutcomes == {
    Raise,
    Reply(NoJsonText),
    \* prose and fences around {"tam": "$25M", "active_users": "15,000", "confidence": 85}
    Reply(Words(<<"Sure!", "Here", "is", "the", "JSON:">>) \o <<NL, FENCE_JSON, NL>>
          \o ObjText(<< KV("tam", MoneyText(25, 2, "M")),
                        KV("active_users", <<QT, D(15, 2), COMMA, D(0, 3), QT>>),
                        KV("confidence", IntText(85)) >>) \o <<NL, FENCE>>),
    \* the template echoed: {"sam": "$XM", "active_users": "X,XXX", "confidence": 80}
    Reply(ObjText(<< KV("sam", Q("$XM")), KV("active_users", Q("X,XXX")),
                     KV("confidence", IntText(80)) >>)),
    \* {"tam": "$40M", "confidence": 90}
    Reply(ObjText(<< KV("tam", MoneyText(40, 2, "M")), KV("confidence", IntText(90)) >>)),
    \* {"active_users": 2000000, "confidence": 95}
    Reply(ObjText(<< KV("active_users", IntText(2000000)), KV("confidence", IntText(95)) >>)),
    \* {"active_users": "0"}
    Reply(ObjText(<< KV("active_users", <<QT, D(0, 1), QT>>) >>)) }

TechOutcomes == {
    Raise,
    Reply(NoJsonText),
    \* {"hours": 40, "cost_at_120_hr": "$4,800", "risk_level": "Low"}
    Reply(ObjText(<< KV("hours", IntText(40)),
                     KV("cost_at_120_hr", <<QT, W("$"), D(4, 1), COMMA, D(800, 3), QT>>),
                     KV("risk_level", Q("Low")) >>)),
    \* {"hours": 480, "risk_level": "High", "detail": {"qa_days": 9}   (cut short)
    Reply(<<LB>> \o Join(<< KV("hours", IntText(480)), KV("risk_level", Q("High")),
                           KV("detail", ObjText(<< KV("qa_days", IntText(9)) >>)) >>)),
    \* {"hours": -240}
    Reply(ObjText(<< KV("hours", <<MINUS>> \o IntText(240)) >>)),
    \* {"hours": "unknown"}
    Reply(ObjText(<< KV("hours", Q("unknown")) >>)),
    \* {}
    Reply(<<LB, RB>>) }

\* a base/bull/bear case as written in a response
CaseText(conv, arr, payback, npv, ltv) ==
    ObjText(<< KV("conversion", conv), KV("arr", arr), KV("payback", payback),
               KV("npv", npv), KV("ltv", ltv) >>)

FinancialOutcomes == {
    Raise,
    Reply(NoJsonText),
    \* the object of the prompt template, complete
    Reply(ObjText(<<
        KV("base", CaseText(FloatText(1, 5), MoneyText(420, 3, "K"), DaysText(94, 2),
                            <<QT, W("$"), D(1, 1), DOT, D(2, 1), W("M"), QT>>, <<QT, W("$"), D(205, 3), QT>>)),
        KV("bull", CaseText(FloatText(2, 5), MoneyText(700, 3, "K"), DaysText(63, 2),
                            <<QT, W("$"), D(2, 1), DOT, D(1, 1), W("M"), QT>>, <<QT, W("$"), D(342, 3), QT>>)),
        KV("bear", CaseText(FloatText(0, 8), MoneyText(224, 3, "K"), DaysText(157, 3),
                            <<QT, W("$"), D(0, 1), DOT, D(4, 1), W("M"), QT>>, <<QT, W("$"), D(109, 3), QT>>)) >>)),
    \* {"base": {"conversion": 1.5, "arr": "$420K"}, "bull": {}}
    Reply(ObjText(<< KV("base", ObjText(<< KV("conversion", FloatText(1, 5)),
                                          KV("arr", MoneyText(420, 3, "K")) >>)),
                     KV("bull", <<LB, RB>>) >>)),
    \* {"base": {"conversion": 1.5, "arr": "$420K", "payback": 94}}
    Reply(ObjText(<< KV("base", ObjText(<< KV("conversion", FloatText(1, 5)),
                                          KV("arr", MoneyText(420, 3, "K")),
                                          KV("payback", IntText(94)) >>)) >>)),
    \* {"base": {"conversion": 1.5, "arr": "$420K", "payback": ""}}
    Reply(ObjText(<< KV("base", ObjText(<< KV("conversion", FloatText(1, 5)),
                                          KV("arr", MoneyText(420, 3, "K")),
                                          KV("payback", <<QT, QT>>) >>)) >>)),
    \* {"base": {"conversion": 10.0, "arr": "$3M", "payback": "30 days"}}
    Reply(ObjText(<< KV("base", ObjText(<< KV("conversion", FloatText(10, 0)),
                                          KV("arr", MoneyText(3, 1, "M")),
                                          KV("payback", DaysText(30, 2)) >>)) >>)),
    \* {"base": {"conversion": -6.0, "arr": "$0", "payback": "999 days"}}
    Reply(ObjText(<< KV("base", ObjText(<< KV("conversion", <<MINUS>> \o FloatText(6, 0)),
                                          KV("arr", <<QT, W("$"), D(0, 1), QT>>),
                                          KV("payback", DaysText(999, 3)) >>)) >>)),
    \* {"base": {"conversion": 1.5}}    (no arr: the progress line raises KeyError)
    Reply(ObjText(<< KV("base", ObjText(<< KV("conversion", FloatText(1, 5)) >>)) >>)),
    \* {"base": "n/a"}                  (the progress line raises TypeError)
    Reply(ObjText(<< KV("base", Q("n/a")) >>)) }

StrategyOutcomes == {
    Raise,
    Reply(NoJsonText),
    \* {"fit_score": 9, "velocity": 9, "risk_level": "Low"}
    Reply(ObjText(<< KV("fit_score", IntText(9)), KV("velocity", IntText(9)),
                     KV("risk_level", Q("Low")) >>)),
    \* {"fit_score": 40}
    Reply(ObjText(<< KV("fit_score", IntText(40)) >>)),
    \* {"alignment": "Core Racing"}
    Reply(ObjText(<< KV("alignment", <<QT, W("Core"), SP, W("Racing"), QT>>) >>)) }

TargetNames == {"iRacing F1 25", "Logitech G Pro"}

----------------------------------------------------------------------------
(* One script run with the Execute Analysis button *)

\* the Financial prompt built from the fallback's user count instead of the
\* Market phase's
FinPromptUsers_FromFallback(market) == FALLBACK_MARKET[K("active_users")]

\* line 338: the USERS value of the Financial prompt
FinPromptUsers(market) == market[K("active_users")]

\* line 345: fin_data['base']['arr'] raises when base is no dict or has no arr
FinProgressLineRaises(fin) ==
    \/ fin[K("base")].t # "dict"
    \/ K("arr") \notin DOMAIN fin[K("base")].v

Init ==
    /\ RunIdle
    /\ ParseIdle
    /\ CoerceIdle

\* the list of the previous analysis left in place
FreshPhaseErrors_CarriedOver(previous) == previous

\* line 284: st.session_state.phase_errors = [], whatever the key held
FreshPhaseErrors(previous) == <<>>

\* lines 277-284: the button is pressed; without a target name the pipeline is
\* skipped, without the token the run stops
ExecuteAnalysis ==
    /\ pc = "idle"
    /\ \E name \in TargetNames \cup {""}, has_token \in BOOLEAN :
        /\ target_name' = name
        /\ IF name = ""
           THEN /\ pc' = "dashboard"
                /\ UNCHANGED <<client, used_fallback, phase_errors>>
           ELSE IF ~has_token
           THEN /\ pc' = "stopped"
                /\ UNCHANGED <<client, used_fallback, phase_errors>>
           ELSE /\ pc' = "phase1"
                /\ client' = TRUE
                /\ used_fallback' = FALSE
                /\ phase_errors' = FreshPhaseErrors(phase_errors)
    /\ UNCHANGED <<analysis_done, ai_data, memo_text, market_data, tech_data, fin_data,
                   strategy_data, responses, fin_prompt_users, parseVars, coerceVars>>

\* lines 288-307
Phase1Market ==
    /\ pc = "phase1"
    /\ \E r \in MarketOutcomes :
        /\ responses' = Append(responses, r)
        /\ IF r.raised
           THEN /\ phase_errors' = Append(phase_errors, "Phase 1")
                /\ market_data' = JObj(FALLBACK_MARKET)
                /\ used_fallback' = TRUE
           ELSE /\ market_data' = JObj(parse_json_safely(r.text, FALLBACK_MARKET))
                /\ UNCHANGED <<phase_errors, used_fallback>>
    /\ pc' = "phase2"
    /\ UNCHANGED <<target_name, client, analysis_done, ai_data, memo_text, tech_data, fin_data,
                   strategy_data, fin_prompt_users, parseVars, coerceVars>>

\* lines 310-329
Phase2Tech ==
    /\ pc = "phase2"
    /\ \E r \in TechOutcomes :
        /\ responses' = Append(responses, r)
        /\ IF r.raised
           THEN /\ phase_errors' = Append(phase_errors, "Phase 2")
                /\ tech_data' = JObj(FALLBACK_TECH)
                /\ used_fallback' = TRUE
           ELSE /\ tech_data' = JObj(parse_json_safely(r.text, FALLBACK_TECH))
                /\ UNCHANGED <<phase_errors, used_fallback>>
    /\ pc' = "phase3"
    /\ UNCHANGED <<target_name, client, analysis_done, ai_data, memo_text, market_data, fin_data,
                   strategy_data, fin_prompt_users, parseVars, coerceVars>>

\* lines 331-350: the prompt is built from market_data before the call
Phase3Financial ==
    /\ pc = "phase3"
    /\ fin_prompt_users' = FinPromptUsers(market_data.v)
    /\ \E r \in FinancialOutcomes :
        /\ responses' = Append(responses, r)
        /\ IF r.raised \/ FinProgressLineRaises(parse_json_safely(r.text, FALLBACK_FINANCIAL))
           THEN /\ phase_errors' = Append(phase_errors, "Phase 3")
                /\ fin_data' = JObj(FALLBACK_FINANCIAL)
                /\ used_fallback' = TRUE
           ELSE /\ fin_data' = JObj(parse_json_safely(r.text, FALLBACK_FINANCIAL))
                /\ UNCHANGED <<phase_errors, used_fallback>>
    /\ pc' = "phase4"
    /\ UNCHANGED <<target_name, client, analysis_done, ai_data, memo_text, market_data, tech_data,
                   strategy_data, parseVars, coerceVars>>

\* lines 352-371
Phase4Strategy ==
    /\ pc = "phase4"
    /\ \E r \in StrategyOutcomes :
        /\ responses' = Append(responses, r)
        /\ IF r.raised
           THEN /\ phase_errors' = Append(phase_errors, "Phase 4")
                /\ strategy_data' = JObj(FALLBACK_STRATEGY)
                /\ used_fallback' = TRUE
           ELSE /\ strategy_data' = JObj(parse_json_safely(r.text, FALLBACK_STRATEGY))
                /\ UNCHANGED <<phase_errors, used_fallback>>
    /\ pc' = "phase5"
    /\ UNCHANGED <<target_name, client, analysis_done, ai_data, memo_text, market_data, tech_data,
                   fin_data, fin_prompt_users, parseVars, coerceVars>>

\* lines 373-439: an exception raised while the record is built leaves the
\* script run; nothing is stored
Phase5Score ==
    /\ pc = "phase5"
    /\ IF PaybackRaises(fin_data.v)
       THEN /\ pc' = "uncaught"
            /\ UNCHANGED <<ai_data, analysis_done>>
       ELSE /\ ai_data' = AiData(AiDataOf(target_name, market_data.v, tech_data.v, fin_data.v,
                                          strategy_data.v, used_fallback, phase_errors))
            /\ analysis_done' = TRUE
            /\ pc' = "dashboard"
    /\ UNCHANGED <<target_name, client, memo_text, used_fallback, phase_errors, market_data,
                   tech_data, fin_data, strategy_data, responses, fin_prompt_users, parseVars, coerceVars>>

Next ==
    \/ ExecuteAnalysis
    \/ Phase1Market
    \/ Phase2Tech
    \/ Phase3Financial
    \/ Phase4Strategy
    \/ Phase5Score

Spec == Init /\ [][Next]_vars

----------------------------------------------------------------------------
(* The dashboard, the memo and the script runs of one browser session *)

\* lines 573-600: the three cases of financial_model are indexed by
\* conversion, arr, payback and npv
FinancialTabRaises(data) ==
    \E c \in {K("base"), K("bull"), K("bear")} :
        \/ data.financial_model[c].t # "dict"
        \/ \E f \in {K("conversion"), K("arr"), K("payback"), K("npv")} :
               f \notin DOMAIN data.financial_model[c].v

\* bool(x) of a JSON value
Truthy(x) ==
    CASE x.t \in {"int", "float"} -> x.v # 0
      [] x.t = "bool" -> x.v
      [] x.t = "null" -> FALSE
      [] x.t \in {"str", "list"} -> x.v # <<>>
      [] x.t = "dict" -> x.v # EmptyDict

\* lines 677 and 685-686: competitors[0] of a truthy value that is no
\* sequence, and the substring tests on a leverage that is no string
StrategyTabRaises(data) ==
    LET competitors == data.strategic_fit.competitors
        leverage == data.strategic_fit.speedrun_leverage
    IN \/ Truthy(competitors) /\ competitors.t \notin {"str", "list"}
       \/ leverage.t \notin {"str", "list", "dict"}
       \/ /\ leverage.t = "list"
          /\ \A i \in DOMAIN leverage.v :
                 ~(leverage.v[i].t = "str" /\ leverage.v[i].v = <<W("A16Z")>>)
       \/ /\ leverage.t = "dict"
          /\ K("A16Z") \notin DOMAIN leverage.v

\* lines 443-691: an exception raised while the score header and the tabs
\* before the memo are rendered (the widget calls are taken to accept
\* their arguments)
DashboardRaises(data) == FinancialTabRaises(data) \/ StrategyTabRaises(data)

\* line 731: ', '.join(competitors)
MemoPromptRaises(data) ==
    LET competitors == data.strategic_fit.competitors
    IN \/ competitors.t \in {"null", "int", "float", "bool"}
       \/ /\ competitors.t = "list"
          /\ \E i \in DOMAIN competitors.v : competitors.v[i].t # "str"

\* the memo the generator wrote for a prompt built from data; an empty reply
\* is an empty string
Memo(data, empty) == [t |-> "memo", v |-> [for |-> data, empty |-> empty]]

\* not st.session_state.memo_text
NoMemo == IF memo_text.t = "memo" THEN memo_text.v.empty ELSE TRUE

\* line 442: st.session_state.analysis_done and st.session_state.ai_data
DashboardShown == analysis_done /\ ai_data.t = "ai_data"

\* what the memo generator can do: raise, write a memo, reply with nothing
MemoOutcomes == {"raise", "memo", "empty"}

\* a script run is over: every name bound in it is gone
LocalsCleared ==
    /\ client' = FALSE
    /\ market_data' = Unbound
    /\ tech_data' = Unbound
    /\ fin_data' = Unbound
    /\ strategy_data' = Unbound
    /\ responses' = <<>>
    /\ fin_prompt_users' = Unbound

LocalsKept ==
    UNCHANGED <<client, market_data, tech_data, fin_data, strategy_data, responses, fin_prompt_users>>

\* the five session keys after lines 790-791, given as a record
ResetKeys_KeepAiData(keys) ==
    [keys EXCEPT !.analysis_done = FALSE, !.memo_text = None,
                 !.used_fallback = FALSE, !.phase_errors = <<>>]

\* lines 790-791: analysis_done is False, ai_data and memo_text None, the
\* other two False (phase_errors is held as the empty list)
ResetKeys(keys) ==
    [analysis_done |-> FALSE, ai_data |-> None, memo_text |-> None,
     used_fallback |-> FALSE, phase_errors |-> <<>>]

SessionKeys ==
    [analysis_done |-> analysis_done, ai_data |-> ai_data, memo_text |-> memo_text,
     used_fallback |-> used_fallback, phase_errors |-> phase_errors]

\* lines 442-792 of a run in which the Refresh Memo button (refresh) or the
\* New Opportunity Analysis button (new) is pressed, or neither: the
\* dashboard block when an analysis is stored, then the export and the reset.
\* experimental_rerun ends the run and starts one with no button pressed,
\* which reaches line 442 with no client.
RenderFrom442(refresh, new) ==
    LET shown == DashboardShown
        data == ai_data.v
        generate == shown /\ NoMemo
        Raises(at) ==
            /\ pc' = at
            /\ LocalsKept
            /\ UNCHANGED <<analysis_done, ai_data, memo_text, used_fallback, phase_errors>>
    IN IF shown /\ (DashboardRaises(data) \/ (NoMemo /\ MemoPromptRaises(data)))
       THEN \* lines 443-691, or 699-744 while the memo prompt is formatted
            Raises("dashboard_raised")
       ELSE IF generate /\ ~client
       THEN \* line 746: NameError, no client was created in this run
            Raises("client_undefined")
       ELSE \E m \in IF generate THEN MemoOutcomes ELSE {"memo"} :
           LET memo == IF generate THEN Memo(data, m = "empty") ELSE memo_text
           IN IF m = "raise"
              THEN \* line 746: the generator call raises
                   Raises("memo_raised")
              ELSE IF shown /\ refresh
              THEN \* lines 767-769
                   /\ memo_text' = None
                   /\ pc' = "dashboard"
                   /\ LocalsCleared
                   /\ UNCHANGED <<analysis_done, ai_data, used_fallback, phase_errors>>
              ELSE IF ai_data.t = "ai_data" /\ ~shown
              THEN \* line 782: NameError, data was never bound
                   /\ memo_text' = memo
                   /\ pc' = "data_undefined"
                   /\ LocalsKept
                   /\ UNCHANGED <<analysis_done, ai_data, used_fallback, phase_errors>>
              ELSE IF new
              THEN \* lines 789-792
                   /\ analysis_done' = ResetKeys(SessionKeys).analysis_done
                   /\ ai_data' = ResetKeys(SessionKeys).ai_data
                   /\ memo_text' = ResetKeys(SessionKeys).memo_text
                   /\ used_fallback' = ResetKeys(SessionKeys).used_fallback
                   /\ phase_errors' = ResetKeys(SessionKeys).phase_errors
                   /\ pc' = "dashboard"
                   /\ LocalsCleared
              ELSE /\ memo_text' = memo
                   /\ pc' = "done"
                   /\ LocalsKept
                   /\ UNCHANGED <<analysis_done, ai_data, used_fallback, phase_errors>>

\* the generator outcomes of the session: per phase a raised call and replies
\* that make the dashboard render, raise in a tab, or raise in the memo prompt
SessionMarketOutcomes == {
    Raise,
    Reply(Words(<<"Sure!", "Here", "is", "the", "JSON:">>) \o <<NL, FENCE_JSON, NL>>
          \o ObjText(<< KV("tam", MoneyText(25, 2, "M")),
                        KV("active_users", <<QT, D(15, 2), COMMA, D(0, 3), QT>>),
                        KV("confidence", IntText(85)) >>) \o <<NL, FENCE>>) }

SessionTechOutcomes == {
    Reply(ObjText(<< KV("hours", IntText(40)),
                     KV("cost_at_120_hr", <<QT, W("$"), D(4, 1), COMMA, D(800, 3), QT>>),
                     KV("risk_level", Q("Low")) >>)) }

SessionFinancialOutcomes == {
    \* {"base": {"conversion": 1.5, "arr": "$420K"}, "bull": {}}
    Reply(ObjText(<< KV("base", ObjText(<< KV("conversion", FloatText(1, 5)),
                                          KV("arr", MoneyText(420, 3, "K")) >>)),
                     KV("bull", <<LB, RB>>) >>)),
    \* {"base": {"conversion": 1.5, "arr": "$420K", "payback": 94}}
    Reply(ObjText(<< KV("base", ObjText(<< KV("conversion", FloatText(1, 5)),
                                          KV("arr", MoneyText(420, 3, "K")),
                                          KV("payback", IntText(94)) >>)) >>)),
    \* {"base": {"conversion": 10.0, "arr": "$3M", "payback": "30 days"}}
    Reply(ObjText(<< KV("base", ObjText(<< KV("conversion", FloatText(10, 0)),
                                          KV("arr", MoneyText(3, 1, "M")),
                                          KV("payback", DaysText(30, 2)) >>)) >>)),
    \* {"base": "n/a"}                  (the progress line raises TypeError)
    Reply(ObjText(<< KV("base", Q("n/a")) >>)),
    Raise }

SessionStrategyOutcomes == {
    \* {"fit_score": 9, "velocity": 9, "risk_level": "Low"}
    Reply(ObjText(<< KV("fit_score", IntText(9)), KV("velocity", IntText(9)),
                     KV("risk_level", Q("Low")) >>)),
    \* {"fit_score": 9, "competitors": null}
    Reply(ObjText(<< KV("fit_score", IntText(9)), KV("competitors", <<W("null")>>) >>)) }

\* the last call of the generator in this run
LastResponse == responses'[Len(responses')]

SessionPhase1 == Phase1Market /\ LastResponse \in SessionMarketOutcomes
SessionPhase2 == Phase2Tech /\ LastResponse \in SessionTechOutcomes
SessionPhase3 == Phase3Financial /\ LastResponse \in SessionFinancialOutcomes
SessionPhase4 == Phase4Strategy /\ LastResponse \in SessionStrategyOutcomes

\* positions at which a script run has ended: with the page drawn, at
\* st.stop(), or with an exception shown on the page
RunEnded ==
    pc \in {"done", "stopped", "uncaught", "dashboard_raised", "memo_raised",
            "client_undefined", "data_undefined"}

\* the user presses Execute Analysis: a new script run starts at the top
PressExecuteAnalysis ==
    /\ RunEnded
    /\ pc' = "idle"
    /\ LocalsCleared
    /\ UNCHANGED <<target_name, analysis_done, ai_data, memo_text, used_fallback,
                   phase_errors, parseVars, coerceVars>>

\* the user changes a widget (a slider, the text input): a script run with no
\* button pressed, which skips the pipeline
ChangeWidget ==
    /\ RunEnded
    /\ pc' = "dashboard"
    /\ LocalsCleared
    /\ UNCHANGED <<target_name, analysis_done, ai_data, memo_text, used_fallback,
                   phase_errors, parseVars, coerceVars>>

\* the user presses Refresh Memo, drawn at line 767 of a run that got there
PressRefreshMemo ==
    /\ pc = "done"
    /\ DashboardShown
    /\ pc' = "refresh_run"
    /\ LocalsCleared
    /\ UNCHANGED <<target_name, analysis_done, ai_data, memo_text, used_fallback,
                   phase_errors, parseVars, coerceVars>>

\* the user presses New Opportunity Analysis, drawn at line 789
PressNewOpportunity ==
    /\ pc = "done"
    /\ pc' = "new_run"
    /\ LocalsCleared
    /\ UNCHANGED <<target_name, analysis_done, ai_data, memo_text, used_fallback,
                   phase_errors, parseVars, coerceVars>>

\* lines 442-792 of a run after the pipeline, or with no button pressed
Dashboard ==
    /\ pc = "dashboard"
    /\ RenderFrom442(FALSE, FALSE)
    /\ UNCHANGED <<target_name, parseVars, coerceVars>>

\* the run in which Refresh Memo returns True
RefreshMemoRun ==
    /\ pc = "refresh_run"
    /\ RenderFrom442(TRUE, FALSE)
    /\ UNCHANGED <<target_name, parseVars, coerceVars>>

\* the run in which New Opportunity Analysis returns True
NewOpportunityRun ==
    /\ pc = "new_run"
    /\ RenderFrom442(FALSE, TRUE)
    /\ UNCHANGED <<target_name, parseVars, coerceVars>>

SessionNext ==
    \/ ExecuteAnalysis
    \/ SessionPhase1
    \/ SessionPhase2
    \/ SessionPhase3
    \/ SessionPhase4
    \/ Phase5Score
    \/ Dashboard
    \/ RefreshMemoRun
    \/ NewOpportunityRun
    \/ PressExecuteAnalysis
    \/ ChangeWidget
    \/ PressRefreshMemo
    \/ PressNewOpportunity

SessionSpec == Init /\ [][SessionNext]_vars

----------------------------------------------------------------------------
(* Properties of parse_json_safely, checked under ParseSpec *)

\* the slice from the first '{' to the last '}' of the cleaned text
SliceOf(t) == JsonSlice(CleanText(t))
HasBoundaries(t) == Find(CleanText(t), "{") # 0 /\ RFind(CleanText(t), "}") # 0

\* position i of s lies inside a string literal: an odd number of quotes precede it
InString(s, i) == Cardinality({j \in 1..(i - 1) : s[j].c = "\""}) % 2 = 1
BraceInString(s) == \E i \in DOMAIN s : s[i].c \in {"{", "}"} /\ InString(s, i)

\* the numbers k >= 1 of closing braces whose addition makes s a JSON object
MissingBraces(s) == {k \in 1..Len(s) : Loads(s \o Braces(k)).ok}

\* C5: the mapping returned by parse_json_safely contains every top-level key
\* of the fallback object it was given, whatever the text.
C5_ResultHasAllFallbackKeys ==
    ppc = "returned" => DOMAIN fallback_data \subseteq DOMAIN result

\* a call whose text parsed to an object lacking a fallback key has returned
C5_Witness ==
    /\ ppc = "returned"
    /\ parsed.ok
    /\ parsed.v.v # EmptyDict
    /\ \E k \in DOMAIN fallback_data : k \notin DOMAIN parsed.v.v

\* C7 as stated: when the slice from the first '{' to the last '}' is a JSON
\* object lacking only k >= 1 trailing closing braces, extraction appends
\* exactly k closing braces and yields the completed object.
C7_RepairCompletesObject ==
    (ppc \in {"parsed", "returned"} /\ HasBoundaries(text)) =>
        \A k \in MissingBraces(SliceOf(text)) :
            /\ Count(SliceOf(text), "{") - Count(SliceOf(text), "}") = k
            /\ parsed = Loads(SliceOf(text) \o Braces(k))

\* C7 amended: the same, for slices in which no brace character occurs inside
\* a string literal.
C7_RepairCompletesObjectNoStringBraces ==
    (ppc \in {"parsed", "returned"} /\ HasBoundaries(text) /\ ~BraceInString(SliceOf(text))) =>
        \A k \in MissingBraces(SliceOf(text)) :
            /\ Count(SliceOf(text), "{") - Count(SliceOf(text), "}") = k
            /\ parsed = Loads(SliceOf(text) \o Braces(k))

\* a slice lacking two closing braces was repaired and parsed, and the call
\* returned an object that is not the fallback
C7_Witness ==
    /\ ppc = "returned"
    /\ HasBoundaries(text)
    /\ ~BraceInString(SliceOf(text))
    /\ 2 \in MissingBraces(SliceOf(text))
    /\ parsed.ok
    /\ result # fallback_data

\* C8: when the slice holds more closing than opening braces, the surplus
\* trailing the generator's object, extraction still succeeds and yields that
\* object.
C8_ExtraClosingBraceTolerated ==
    (ppc \in {"parsed", "returned"} /\ HasBoundaries(text)) =>
        LET s == SliceOf(text)
            surplus == Count(s, "}") - Count(s, "{")
        IN (surplus > 0 /\ Loads(SubSeq(s, 1, Len(s) - surplus)).ok) =>
              /\ parsed.ok
              /\ parsed.v = Loads(SubSeq(s, 1, Len(s) - surplus)).v

\* C9: for a text without an opening brace or without a closing brace the call
\* returns a mapping equal to the fallback object.
C9_NoBoundariesGivesFallback ==
    (ppc = "returned" /\ (Find(text, "{") = 0 \/ Find(text, "}") = 0)) =>
        result = fallback_data

\* a text that opens an object holding a key of the fallback but never closes
\* it has been answered
C9_Witness ==
    /\ ppc = "returned"
    /\ Find(text, "{") # 0
    /\ Find(text, "}") = 0
    /\ \E i \in 1..(Len(text) - 2) : <<text[i + 1]>> \in DOMAIN fallback_data

----------------------------------------------------------------------------
\* a string holds one of the placeholders of placeholder_map
HasPlaceholder(units) ==
    \E i \in DOMAIN units, p \in DOMAIN placeholder_map : units[i] = placeholder_map[p][1]

\* C11: a field whose generated string contains a template placeholder is
\* treated as absent: its value in the result is the fallback object's value
\* of that field.
C11_PlaceholderFieldGetsFallback ==
    (ppc = "returned" /\ parsed.ok) =>
        \A k \in (DOMAIN parsed.v.v) \cap (DOMAIN fallback_data) :
            (parsed.v.v[k].t = "str" /\ HasPlaceholder(parsed.v.v[k].v)) =>
                /\ result[k].t = fallback_data[k].t
                /\ result[k] = fallback_data[k]

----------------------------------------------------------------------------
(* Properties of the analysis run, checked under Spec *)

Running == pc \in {"phase1", "phase2", "phase3", "phase4", "phase5"}
\* the pipeline was entered and the script run has left it
RunOver == client /\ ~Running
Scored == analysis_done /\ ai_data.t = "ai_data"

\* the data, the fallback object, the phase_errors label and the primary
\* scoring field of the i-th phase
DataOf(i) == <<market_data, tech_data, fin_data, strategy_data>>[i]
FallbackOf(i) == <<FALLBACK_MARKET, FALLBACK_TECH, FALLBACK_FINANCIAL, FALLBACK_STRATEGY>>[i]
LabelOf(i) == <<"Phase 1", "Phase 2", "Phase 3", "Phase 4">>[i]
PrimaryKeyOf(i) == <<K("active_users"), K("hours"), K("base"), K("fit_score")>>[i]

\* the value of the i-th domain's primary scoring field was not in the
\* generator's response: the call raised, no object could be extracted, the
\* object lacks the field, or the whole domain was replaced by its fallback
PrimaryFromFallback(i) ==
    \/ responses[i].raised
    \/ ~ExtractJson(responses[i].text).ok
    \/ PrimaryKeyOf(i) \notin DOMAIN ExtractJson(responses[i].text).v.v
    \/ DataOf(i) = JObj(FallbackOf(i))

\* C1: the emitted overall_score lies in [0, 100] (0..1000 tenths) for all data
\* the four phases can hand to Phase 5.
C1_OverallScoreInRange ==
    Scored => (ai_data.v.overall_score >= 0 /\ ai_data.v.overall_score <= 1000)

\* C2: once the pipeline has started, no exception escapes it: a run that has
\* left the pipeline has stored ai_data and set analysis_done.
C2_RunEndsScored ==
    RunOver => (pc = "dashboard" /\ Scored)

\* C3: whenever a domain's primary scoring field comes from the fallback
\* object, the emitted record's used_fallback flag is true.
C3_FallbackFieldSetsDegraded ==
    Scored => \A i \in 1..4 : PrimaryFromFallback(i) => ai_data.v.used_fallback

\* C4: if the generator call of a phase raises, that phase's data is exactly
\* the domain's fallback object, phase_errors has an entry for the phase, every
\* later phase is executed and a score is emitted.
C4_RaisedCallFallsBackAndRunGoesOn ==
    \A i \in DOMAIN responses :
        responses[i].raised =>
            /\ DataOf(i) = JObj(FallbackOf(i))
            /\ \E e \in DOMAIN phase_errors : phase_errors[e] = LabelOf(i)
            /\ RunOver => (Len(responses) = 4 /\ Scored)

FinCases == {K("base"), K("bull"), K("bear")}
FinSubFields == {K("conversion"), K("arr"), K("payback"), K("npv"), K("ltv")}

\* the sub-field f of case c as the generator's response holds it, Unbound
\* when the response has none
GeneratedSubField(r, c, f) ==
    LET got == ExtractJson(r.text)
    IN IF r.raised \/ ~got.ok THEN Unbound
       ELSE IF c \notin DOMAIN got.v.v THEN Unbound
       ELSE IF got.v.v[c].t # "dict" THEN Unbound
       ELSE IF f \notin DOMAIN got.v.v[c].v THEN Unbound
       ELSE got.v.v[c].v[f]

\* C6: after the Financial phase each of base, bull and bear of fin_data is an
\* object with all five sub-fields, a sub-field the generator omitted being
\* that of the same case of FALLBACK_FINANCIAL.
C6_FinancialCasesReconciled ==
    fin_data.t # "unbound" =>
        \A c \in FinCases :
            /\ fin_data.v[c].t = "dict"
            /\ FinSubFields \subseteq DOMAIN fin_data.v[c].v
            /\ \A f \in FinSubFields :
                  GeneratedSubField(responses[3], c, f).t = "unbound" =>
                      fin_data.v[c].v[f] = FALLBACK_FINANCIAL[c].v[f]

\* C10: the Financial call is issued only after the Market phase has resolved
\* market_data, whose active_users is the USERS value of the Financial prompt,
\* and ai_data is written only after all four phases have produced their data.
C10_FinancialAfterMarketScoredAfterAll ==
    /\ (Len(responses) >= 3 \/ fin_prompt_users.t # "unbound") =>
          /\ market_data.t = "dict"
          /\ fin_prompt_users.t = market_data.v[K("active_users")].t
          /\ fin_prompt_users = market_data.v[K("active_users")]
    /\ fin_data.t # "unbound" => market_data.t = "dict"
    /\ Scored =>
          /\ Len(responses) = 4
          /\ \A i \in 1..4 : DataOf(i).t = "dict"

\* a run was scored whose Financial prompt carried a user count the Market
\* response supplied
C10_Witness ==
    /\ Scored
    /\ ~responses[1].raised
    /\ fin_prompt_users = JStr(<<D(15, 2), COMMA, D(0, 3)>>)
    /\ ~responses[3].raised

\* a value that holds no number: None, a list, a dict or a string without
\* any digit
HoldsNoNumber(value) ==
    \/ value.t \in {"null", "list", "dict"}
    \/ value.t = "str" /\ DigitsOf(value.v).w = 0

\* C12: a Technical 'hours' value that is present but not coercible to an
\* integer is replaced by the fallback value alone: the run is scored with the
\* 120 hours of FALLBACK_TECH, not with 0 hours.
C12_UncoercibleHoursScoredAsFallback ==
    (Scored /\ HoldsNoNumber(tech_data.v[K("hours")])) =>
        /\ ai_data.v.technical_feasibility.hours = FALLBACK_TECH[K("hours")].v
        /\ ai_data.v.technical_feasibility.score
              = RoundHalfEven(10 * tech_score(FALLBACK_TECH[K("hours")].v), 25 * (ScoreScale \div 10))

\* C13: the scored record carries risk_adjusted_score = round(overall_score * m, 1),
\* m being 1.0 for a Technical risk level of Low, 0.45 for High and 0.75 for
\* Medium or any other level; hence risk_adjusted_score <= overall_score.
C13_RiskAdjustedScore ==
    Scored =>
        LET level == ai_data.v.technical_feasibility.risk_level
            m == IF level.t = "str" /\ level.v = <<W("Low")>> THEN 100
                 ELSE IF level.t = "str" /\ level.v = <<W("High")>> THEN 45
                 ELSE 75
        IN /\ "risk_adjusted_score" \in DOMAIN ai_data.v
           /\ ai_data.v.risk_adjusted_score = RoundHalfEven(ai_data.v.overall_score * m, 100)
           /\ ai_data.v.risk_adjusted_score <= ai_data.v.overall_score

\* the hours the Technical phase can hand to Phase 5
DeliveredHours ==
    {HoursOf(IF r.raised THEN FALLBACK_TECH ELSE parse_json_safely(r.text, FALLBACK_TECH)) :
        r \in TechOutcomes}

\* C16: for every hours value the Technical phase can deliver, the technical
\* score 10 - min(hours / 48, 10) lies in [0, 10] (weighted [0, 25]), is 10 at
\* 0 hours, 0 from 480 hours on, and non-increasing in hours.
C16_TechScoreBounded ==
    Scored =>
        LET hours == ai_data.v.technical_feasibility.hours
        IN /\ tech_score(hours) >= 0
           /\ tech_score(hours) <= 25 * ScoreScale
           /\ ai_data.v.technical_feasibility.score >= 0
           /\ ai_data.v.technical_feasibility.score <= 100
           /\ hours = 0 => ai_data.v.technical_feasibility.score = 100
           /\ hours >= 480 => ai_data.v.technical_feasibility.score = 0
           /\ \A h \in DeliveredHours : h <= hours => tech_score(h) >= tech_score(hours)

\* the non-negative integer an active_users value states: an int that is not
\* negative, or a string of digits and thousands separators; -1 for any other
\* value
StatedUsers(active_users) ==
    IF active_users.t = "int" THEN (IF active_users.v >= 0 THEN active_users.v ELSE -1)
    ELSE IF active_users.t # "str" THEN -1
    ELSE IF /\ DigitsOf(active_users.v).w > 0
            /\ \A i \in DOMAIN active_users.v : active_users.v[i].c \in {"#", ","}
         THEN DigitsOf(active_users.v).n
         ELSE -1

\* C17: for every non-negative integer user count n the Market phase resolves
\* for active_users, n = 0 included, the Market sub-score that enters
\* overall_score is min(10, n / 10000) * 3.5.
C17_MarketScoreFromUsers ==
    Scored =>
        LET n == StatedUsers(market_data.v[K("active_users")])
            claimed == IF n >= 100000 THEN 35 * ScoreScale ELSE n * 21
        IN n >= 0 =>
            /\ ai_data.v.market_attractiveness.score
                  = RoundHalfEven(10 * claimed, 35 * (ScoreScale \div 10))
            /\ ai_data.v.overall_score
                  = RoundHalfEven(10 * (claimed + tech_score(HoursOf(tech_data.v))
                                        + revenue_score(ConversionOf(fin_data.v))
                                        + strategy_score(FitOf(strategy_data.v))),
                                  ScoreScale)

----------------------------------------------------------------------------
(* Properties of the coercion helpers, checked under CoerceSpec *)

\* what a helper returns in place of a number: the default argument, 0 for
\* parse_cost_to_number
FallbackOfCall == IF coerced.fn = "parse_cost_to_number" THEN 0 ELSE coerce_default

DenotesNegative(v) ==
    \/ v.t \in {"int", "float"} /\ v.v < 0
    \/ /\ v.t = "str"
       /\ LET bare == Without(Without(Without(Without(Without(v.v, "$"), ","), " "), "K"), "M")
          IN At(bare, 1) = "-" /\ FloatOfStr(bare).ok /\ FloatOfStr(bare).v < 0

\* C15: for a value denoting a negative number safe_int and
\* parse_cost_to_number return the fallback, never a negative number and never
\* the absolute value.
C15_NegativeRejected ==
    (cpc = "returned" /\ coerced.fn \in {"safe_int", "parse_cost_to_number"}
        /\ DenotesNegative(coerce_value)) =>
        coerced.r.v = FallbackOfCall

----------------------------------------------------------------------------
(* Properties of a browser session, checked under SessionSpec *)

\* two ai_data records are of the same analysis as far as the page shows:
\* the same target and the same scores
SameTargetAndScores(a, b) ==
    /\ a.target = b.target
    /\ a.overall_score = b.overall_score
    /\ a.market_attractiveness.score = b.market_attractiveness.score
    /\ a.technical_feasibility.score = b.technical_feasibility.score
    /\ a.revenue_potential.score = b.revenue_potential.score
    /\ a.strategic_fit.score = b.strategic_fit.score

\* a run drew the page down to its last line with the dashboard on it
PageDrawn == pc = "done" /\ DashboardShown

\* C18: whenever the dashboard displays a memo together with an analysis, the
\* memo was generated from the ai_data displayed (same target and scores); a
\* memo of an earlier analysis is never shown for a later one.
C18_MemoOfDisplayedAnalysis ==
    (PageDrawn /\ memo_text.t = "memo") =>
        SameTargetAndScores(memo_text.v.for, ai_data.v)


\* C19: the memo-generation call is reached only in script runs in which the
\* generator client has been created; the run after Refresh Memo regenerates
\* the memo without referencing an undefined client.
C19_MemoCallHasClient == pc # "client_undefined"


\* C20: at the end of every script run, whatever the sequence of Execute
\* Analysis, Refresh Memo and New Opportunity Analysis (runs stopped for a
\* missing token included), analysis_done is true if and only if ai_data is
\* set, and the export section never reads data unbound.
C20_DoneIffDataAndExportBound ==
    /\ analysis_done <=> ai_data.t = "ai_data"
    /\ pc # "data_undefined"

\* a run without the pipeline drew the page with a stored analysis: its export
\* section read the data bound by the dashboard block
C20_Witness ==
    /\ PageDrawn
    /\ ~client
    /\ memo_text.t = "memo"


\* the try block of phase i of this run raised: the generator call did, or in
\* Phase 3 the progress line after it
TryBlockRaised(i) ==
    \/ responses[i].raised
    \/ /\ i = 3
       /\ ~responses[i].raised
       /\ FinProgressLineRaises(parse_json_safely(responses[i].text, FALLBACK_FINANCIAL))

\* one label for each phase of this run whose try block raised, in phase order
RaisedPhases ==
    SelectSeq(<<1, 2, 3, 4>>, TryBlockRaised)

\* Phase 5 has just stored the record of this run
RecordEmitted == pc = "dashboard" /\ Len(responses) = 4 /\ ai_data.t = "ai_data"

\* C21: in every ai_data record emitted by Phase 5, used_fallback is true if
\* and only if phase_errors is non-empty, and phase_errors holds exactly one
\* entry for each phase of that same run whose try block raised, in phase
\* order, with nothing carried over from a previous analysis.
C21_ErrorsOfThisRunOnly ==
    RecordEmitted =>
        /\ ai_data.v.used_fallback <=> ai_data.v.phase_errors # <<>>
        /\ Len(ai_data.v.phase_errors) = Len(RaisedPhases)
        /\ \A j \in 1..Len(RaisedPhases) :
               ai_data.v.phase_errors[j] = LabelOf(RaisedPhases[j])

\* a later analysis has been stored whose only failed phase is Phase 3, by
\* the progress line after an answered call, while the memo of an earlier
\* analysis, in which Phase 1 and Phase 3 failed, is kept
C21_Witness ==
    /\ RecordEmitted
    /\ ~responses[3].raised
    /\ ai_data.v.phase_errors = <<"Phase 3">>
    /\ ai_data.v.used_fallback
    /\ memo_text.t = "memo"
    /\ memo_text.v.for.phase_errors = <<"Phase 1", "Phase 3">>

====
